---- MODULE Spec2Model ----
(***************************************************************************)
(* Model of clockodo_scheduler.py: the schedule generator                  *)
(* (WorkScheduler.is_business_day, generate_work_blocks,                   *)
(* generate_schedule), ClockodoAPI.create_entry and the main() pipeline.   *)
(*                                                                         *)
(* Calendar dates are day numbers counted from Thursday 2024-03-28         *)
(* (day 0).  Instants are minutes since 2024-03-28T00:00Z.  A time of day  *)
(* string "HH:MM" is written as the pair <<HH, MM>> that                   *)
(* map(int, s.split(":")) yields.                                          *)
(***************************************************************************)
EXTENDS Integers, Sequences, FiniteSets, TLC

VARIABLES
    pc,             \* position of main(): see the actions below
    dry_run,        \* args.dry_run
    config,         \* the configuration dict (a function from its keys)
    api_user,       \* os.getenv("CLOCKODO_API_USER"), None until read
    api_key,        \* os.getenv("CLOCKODO_API_KEY"), None until read
    start_date,     \* parsed config["start_date"] (day number)
    end_date,       \* parsed config["end_date"] (day number)
    current_date,   \* loop variable of generate_schedule
    entries,        \* the list of TimeEntry built by generate_schedule
    idx,            \* position of the 'for entry in entries' loop (1-based)
    success_count,  \* main(): success_count
    failures,       \* number of create_entry calls that returned False
    posts,          \* the entries for which session.post was issued, in order
    exit_status,    \* process exit status, None while running
    last            \* the locals of the latest generate_work_blocks call

vars == <<pc, dry_run, config, api_user, api_key, start_date, end_date,
          current_date, entries, idx, success_count, failures, posts,
          exit_status, last>>

None == "None"

-----------------------------------------------------------------------------
(* Bounds of the model                                                      *)

\* the date window of main() is day 28 (Thu 2024-04-25) .. 28 + MaxDay
MaxDay == 4
\* a configured date range covers at most MaxRange calendar days
MaxRange == 3
\* end_time candidates of SpecBlocks run from 11:01 to 11:00 + MaxEndSpan
MaxEndSpan == 100

-----------------------------------------------------------------------------
(* Calendar: datetime arithmetic, weekday() and strftime("%Y-%m-%d")        *)

IsLeap(y) == (y % 4 = 0 /\ y % 100 # 0) \/ y % 400 = 0

DaysInMonth(y, m) ==
    IF m = 2 THEN (IF IsLeap(y) THEN 29 ELSE 28)
    ELSE IF m \in {4, 6, 9, 11} THEN 30 ELSE 31

\* <<y, m, d>> + timedelta(days=1)
NextDay(ymd) ==
    IF ymd[3] < DaysInMonth(ymd[1], ymd[2]) THEN <<ymd[1], ymd[2], ymd[3] + 1>>
    ELSE IF ymd[2] < 12 THEN <<ymd[1], ymd[2] + 1, 1>>
    ELSE <<ymd[1] + 1, 1, 1>>

\* the calendar date <<y, m, d>> of day number n
RECURSIVE DateOf(_)
DateOf(n) == IF n = 0 THEN <<2024, 3, 28>> ELSE NextDay(DateOf(n - 1))

\* date.weekday(): Monday = 0 .. Sunday = 6; day 0 is a Thursday
weekday(n) == (3 + n) % 7

Pad2(k) == IF k < 10 THEN "0" \o ToString(k) ELSE ToString(k)

\* date.strftime("%Y-%m-%d")
strftime(n) ==
    LET ymd == DateOf(n)
    IN  ToString(ymd[1]) \o "-" \o Pad2(ymd[2]) \o "-" \o Pad2(ymd[3])

-----------------------------------------------------------------------------
(* Time zones: tz.gettz(name), replace(tzinfo=...), astimezone(tz.UTC)      *)

\* The UTC offset (minutes) dateutil gives the naive wall time 'tod' of day n.
\* A zone's spring-forward transition is kept as wall time in standard time;
\* a wall time at or after it, a non-existent one inside the gap included,
\* gets the offset in force after the transition.
utcoffset(zone, n, tod) ==
    CASE zone = "Europe/Berlin" ->      \* Sun 2024-03-31 02:00 -> 03:00
            IF n > 3 \/ (n = 3 /\ tod >= 120) THEN 120 ELSE 60
      [] zone = "Asia/Jerusalem" ->     \* Fri 2024-03-29 02:00 -> 03:00
            IF n > 1 \/ (n = 1 /\ tod >= 120) THEN 180 ELSE 120
      [] zone = "Africa/Cairo" ->       \* Fri 2024-04-26 00:00 -> 01:00
            IF n >= 29 THEN 180 ELSE 120
      [] OTHER -> 0                     \* "UTC"

\* date.replace(hour, minute, second=0).replace(tzinfo=zone).astimezone(UTC)
ToUtc(zone, n, hm) ==
    LET tod == hm[1] * 60 + hm[2]
    IN  n * 1440 + tod - utcoffset(zone, n, tod)

-----------------------------------------------------------------------------
(* WorkScheduler                                                            *)

\* dict.get(key, default)
Get(cfg, key, default) == IF key \in DOMAIN cfg THEN cfg[key] ELSE default

is_business_day_sat(cfg, date) ==
    IF weekday(date) >= 6 THEN FALSE
    ELSE IF strftime(date) \in Get(cfg, "excluded_dates", {}) THEN FALSE
    ELSE TRUE

is_business_day(cfg, date) ==
    IF weekday(date) >= 5 THEN FALSE
    ELSE IF strftime(date) \in Get(cfg, "excluded_dates", {}) THEN FALSE
    ELSE TRUE

RoundBreakTieDown(break_start_minutes) ==
    LET remainder == break_start_minutes % 30
    IN  IF remainder <= 15 THEN break_start_minutes - remainder
        ELSE break_start_minutes + (30 - remainder)

RoundBreakUp(break_start_minutes) ==
    LET remainder == break_start_minutes % 30
    IN  break_start_minutes + (30 - remainder)

\* "Round break to nearest 30-minute interval"
RoundBreak(break_start_minutes) ==
    LET remainder == break_start_minutes % 30
    IN  IF remainder < 15 THEN break_start_minutes - remainder
        ELSE break_start_minutes + (30 - remainder)

BreakEndBefore(break_start) == break_start - 30

\* break_end = break_start + timedelta(minutes=30)
BreakEnd(break_start) == break_start + 30

FirstBlockAlways(break_start, utc_start) == break_start >= utc_start

\* "if break_start > utc_start"
FirstBlockEmitted(break_start, utc_start) == break_start > utc_start

\* "if utc_end > break_end"
SecondBlockEmitted(utc_end, break_end) == utc_end > break_end

TimeEntry(customer_id, service_id, billable, time_since, time_until) ==
    [customer_id |-> customer_id, service_id |-> service_id,
     billable |-> billable, time_since |-> time_since,
     time_until |-> time_until]

DefaultStartOptions == {<<11, 0>>, <<11, 30>>, <<12, 0>>}

\* The locals of generate_work_blocks(date) on a business day, given the
\* start_time_str that random.choice returned; 'blocks' is the return value.
\* Both instants are whole minutes, so int(total_seconds() / 60) is their
\* difference; // and % round towards minus infinity, as \div and % do.
work_blocks(cfg, date, start_time_str) ==
    LET zone == Get(cfg, "timezone", "UTC")
        utc_start == ToUtc(zone, date, start_time_str)
        utc_end == ToUtc(zone, date, Get(cfg, "end_time", <<21, 0>>))
        total_minutes == utc_end - utc_start
        break_start_minutes == RoundBreak(total_minutes \div 2)
        break_start == utc_start + break_start_minutes
        break_end == BreakEnd(break_start)
        mk(since, until) ==
            TimeEntry(cfg["customer_id"], cfg["service_id"],
                      Get(cfg, "billable", TRUE), since, until)
        first == IF FirstBlockEmitted(break_start, utc_start)
                 THEN <<mk(utc_start, break_start)>> ELSE <<>>
        second == IF SecondBlockEmitted(utc_end, break_end)
                  THEN <<mk(break_end, utc_end)>> ELSE <<>>
    IN  [called |-> TRUE, date |-> date, business_day |-> TRUE,
         utc_start |-> utc_start, utc_end |-> utc_end,
         total_minutes |-> total_minutes,
         break_start_minutes |-> break_start_minutes,
         break_start |-> break_start, break_end |-> break_end,
         blocks |-> first \o second]

\* generate_work_blocks(date) on a day that is not a business day: []
no_blocks(date) ==
    [called |-> TRUE, date |-> date, business_day |-> FALSE,
     utc_start |-> 0, utc_end |-> 0, total_minutes |-> 0,
     break_start_minutes |-> 0, break_start |-> 0, break_end |-> 0,
     blocks |-> <<>>]

NoCall == [no_blocks(0) EXCEPT !.called = FALSE]

-----------------------------------------------------------------------------
(* ClockodoAPI.create_entry                                                 *)

create_entry_ignoring_dry_run(dry, ok) == [posted |-> TRUE, result |-> ok]

\* create_entry(entry, dry_run): 'ok' is whether session.post and
\* raise_for_status went through without a RequestException.  'posted' tells
\* whether the HTTP request was issued, 'result' is the returned bool.
create_entry(dry, ok) ==
    IF dry THEN [posted |-> FALSE, result |-> TRUE]
    ELSE [posted |-> TRUE, result |-> ok]

-----------------------------------------------------------------------------
(* Inputs of main(): configuration documents, overrides, environment        *)

RequiredKeys == {"customer_id", "service_id", "start_date", "end_date"}

Restrict(f, K) == [k \in K |-> f[k]]

\* the days main() may be asked to schedule: Thu 2024-04-25 onwards
WindowDays == 28 .. (28 + MaxDay)

\* start_date / end_date strings: inclusive ranges, and two unparsable ones
DatePairs ==
    {<<strftime(p[1]), strftime(p[2])>> :
        p \in {q \in WindowDays \X WindowDays :
                  q[1] <= q[2] /\ q[2] < q[1] + MaxRange}}
    \cup {<<"tomorrow", strftime(28)>>, <<strftime(28), "2024-13-45">>}

TimeOfDay(hm) == hm[1] * 60 + hm[2]

\* "each startTimeOptions entry ... strictly before endTime"
ValidTimes(options, end_time) ==
    /\ options # {}
    /\ \A s \in options : TimeOfDay(s) < TimeOfDay(end_time)

\* the optional keys: all absent (defaults apply) or all present
OptParts ==
    {<<>>} \cup
    {[o \in {"timezone", "excluded_dates", "start_time_options", "end_time"} |->
        CASE o = "timezone" -> zone
          [] o = "excluded_dates" -> excl
          [] o = "start_time_options" -> opts
          [] OTHER -> e] :
        zone \in {"UTC", "Africa/Cairo"},
        excl \in SUBSET {"2024-04-26", "2024-4-29"},
        opts \in (SUBSET {<<0, 15>>, <<11, 0>>}) \ {{}},
        e \in {<<11, 45>>, <<23, 45>>}}

ValidOpt(o) ==
    ValidTimes(Get(o, "start_time_options", DefaultStartOptions),
               Get(o, "end_time", <<21, 0>>))

Docs ==
    {Restrict([customer_id |-> 1, service_id |-> 2,
               start_date |-> p[1], end_date |-> p[2]], K) @@ o :
        p \in DatePairs, K \in SUBSET RequiredKeys,
        o \in {x \in OptParts : ValidOpt(x)}}

\* --start-date / --end-date: absent, or given
Overrides == {None, strftime(28)}

\* "if args.start_date: config["start_date"] = args.start_date" (and end_date)
Override(doc, arg_start, arg_end) ==
    (IF arg_start # None THEN [k \in {"start_date"} |-> arg_start] ELSE <<>>)
    @@ (IF arg_end # None THEN [k \in {"end_date"} |-> arg_end] ELSE <<>>)
    @@ doc

\* dateutil's parse, on the strings of the model: the day a string names
Parseable(date_str) == \E n \in 0 .. 40 : strftime(n) = date_str
parse_date(date_str) == CHOOSE n \in 0 .. 40 : strftime(n) = date_str

CredentialsMissingBoth(user, key) == user \in {None, ""} /\ key \in {None, ""}

\* "if not api_user or not api_key"
CredentialsMissing(user, key) == user \in {None, ""} \/ key \in {None, ""}

-----------------------------------------------------------------------------
(* main()                                                                   *)

Init ==
    /\ pc = "start"
    /\ dry_run \in BOOLEAN
    /\ config = <<>>
    /\ api_user = None
    /\ api_key = None
    /\ start_date = 0
    /\ end_date = 0
    /\ current_date = 0
    /\ entries = <<>>
    /\ idx = 0
    /\ success_count = 0
    /\ failures = 0
    /\ posts = <<>>
    /\ exit_status = None
    /\ last = NoCall

Exit(status) ==
    /\ pc' = "exit"
    /\ exit_status' = status

\* load_config: FileNotFoundError or JSONDecodeError -> sys.exit(1)
LoadConfigFail ==
    /\ pc = "start"
    /\ Exit(1)
    /\ UNCHANGED <<dry_run, config, api_user, api_key, start_date, end_date,
                   current_date, entries, idx, success_count, failures, posts,
                   last>>

\* load_config succeeds; command-line date overrides are applied
LoadConfig ==
    /\ pc = "start"
    /\ \E doc \in Docs, arg_start \in Overrides, arg_end \in Overrides :
          config' = Override(doc, arg_start, arg_end)
    /\ pc' = "parse_dates"
    /\ UNCHANGED <<dry_run, api_user, api_key, start_date, end_date,
                   current_date, entries, idx, success_count, failures, posts,
                   exit_status, last>>

\* "Parse dates": any exception (KeyError, parse error) -> sys.exit(1)
ParseDates ==
    /\ pc = "parse_dates"
    /\ IF /\ "start_date" \in DOMAIN config
          /\ Parseable(config["start_date"])
          /\ "end_date" \in DOMAIN config
          /\ Parseable(config["end_date"])
       THEN /\ start_date' = parse_date(config["start_date"])
            /\ end_date' = parse_date(config["end_date"])
            /\ pc' = "credentials"
            /\ UNCHANGED exit_status
       ELSE /\ Exit(1)
            /\ UNCHANGED <<start_date, end_date>>
    /\ UNCHANGED <<dry_run, config, api_user, api_key, current_date, entries,
                   idx, success_count, failures, posts, last>>

\* credentials are read from the environment; missing -> sys.exit(1);
\* otherwise generate_schedule starts with current_date = start_date
GetCredentials ==
    /\ pc = "credentials"
    /\ \E user \in {None, "", "user"}, key \in {None, "", "key"} :
          /\ api_user' = user
          /\ api_key' = key
          /\ IF CredentialsMissing(user, key)
             THEN Exit(1) /\ UNCHANGED <<current_date, entries>>
             ELSE /\ pc' = "generate"
                  /\ current_date' = start_date
                  /\ entries' = <<>>
                  /\ UNCHANGED exit_status
    /\ UNCHANGED <<dry_run, config, start_date, end_date, idx, success_count,
                   failures, posts, last>>

\* one iteration of the while loop of generate_schedule: a call of
\* generate_work_blocks(current_date).  A missing customer_id or service_id
\* raises KeyError on the first business day, which nothing catches.
GenerateDay ==
    /\ pc = "generate"
    /\ current_date <= end_date
    /\ IF ~is_business_day(config, current_date)
       THEN /\ last' = no_blocks(current_date)
            /\ current_date' = current_date + 1
            /\ UNCHANGED <<pc, entries, exit_status>>
       ELSE IF ~({"customer_id", "service_id"} \subseteq DOMAIN config)
       THEN /\ pc' = "crashed"
            /\ exit_status' = 1
            /\ UNCHANGED <<current_date, entries, last>>
       ELSE \E start_time_str \in
                 Get(config, "start_time_options", DefaultStartOptions) :
               /\ last' = work_blocks(config, current_date, start_time_str)
               /\ entries' = entries \o last'.blocks
               /\ current_date' = current_date + 1
               /\ UNCHANGED <<pc, exit_status>>
    /\ UNCHANGED <<dry_run, config, api_user, api_key, start_date, end_date,
                   idx, success_count, failures, posts>>

\* generate_schedule returns; "if not entries: ... return", else the
\* submission loop starts with success_count = 0
GenerateDone ==
    /\ pc = "generate"
    /\ current_date > end_date
    /\ IF entries = <<>>
       THEN /\ pc' = "done"
            /\ exit_status' = 0
            /\ UNCHANGED <<idx, success_count>>
       ELSE /\ pc' = "submit"
            /\ idx' = 1
            /\ success_count' = 0
            /\ UNCHANGED exit_status
    /\ UNCHANGED <<dry_run, config, api_user, api_key, start_date, end_date,
                   current_date, entries, failures, posts, last>>

NextEntryRetry(i, result) == IF result THEN i + 1 ELSE i

\* the for loop moves on to the next entry whatever create_entry returned
NextEntry(i, result) == i + 1

\* one iteration of "for entry in entries" (sleep included)
SubmitEntry ==
    /\ pc = "submit"
    /\ idx <= Len(entries)
    /\ \E ok \in BOOLEAN :
          LET r == create_entry(dry_run, ok)
          IN  /\ posts' = IF r.posted THEN Append(posts, entries[idx]) ELSE posts
              /\ success_count' = IF r.result THEN success_count + 1
                                  ELSE success_count
              /\ failures' = IF r.result THEN failures ELSE failures + 1
              /\ idx' = NextEntry(idx, r.result)
    /\ UNCHANGED <<pc, dry_run, config, api_user, api_key, start_date,
                   end_date, current_date, entries, exit_status, last>>

\* "Summary": the loop is over, main returns
Summary ==
    /\ pc = "submit"
    /\ idx > Len(entries)
    /\ pc' = "done"
    /\ exit_status' = 0
    /\ UNCHANGED <<dry_run, config, api_user, api_key, start_date, end_date,
                   current_date, entries, idx, success_count, failures, posts,
                   last>>

Next ==
    \/ LoadConfigFail
    \/ LoadConfig
    \/ ParseDates
    \/ GetCredentials
    \/ GenerateDay
    \/ GenerateDone
    \/ SubmitEntry
    \/ Summary

Spec == Init /\ [][Next]_vars

-----------------------------------------------------------------------------
(* generate_work_blocks on its own: one call per date and configuration     *)

BlockDays == (0 .. 4) \cup {28, 29, 33, 34}

BlockEndTimes ==
    {<<11 + (k \div 60), k % 60>> : k \in 1 .. MaxEndSpan}
    \cup {<<0, 45>>, <<2, 30>>, <<2, 45>>, <<21, 0>>, <<23, 45>>}

BlockStartOptions ==
    {{<<0, 15>>}, {<<1, 45>>}, {<<11, 0>>}, {<<11, 30>>}, DefaultStartOptions}

BlockConfigs ==
    {[customer_id |-> 1, service_id |-> 2, timezone |-> zone,
      excluded_dates |-> excl, start_time_options |-> opts, end_time |-> e] :
        zone \in {"UTC", "Europe/Berlin", "Asia/Jerusalem", "Africa/Cairo"},
        excl \in {{}, {"2024-03-29", "2024-04-01", "2024-5-1"}},
        opts \in BlockStartOptions,
        e \in BlockEndTimes}

InitBlocks ==
    /\ pc = "generate"
    /\ dry_run = FALSE
    /\ config \in {c \in BlockConfigs :
                      ValidTimes(c.start_time_options, c.end_time)}
    /\ api_user = "user"
    /\ api_key = "key"
    /\ start_date \in BlockDays
    /\ end_date = start_date
    /\ current_date = start_date
    /\ entries = <<>>
    /\ idx = 0
    /\ success_count = 0
    /\ failures = 0
    /\ posts = <<>>
    /\ exit_status = None
    /\ last = NoCall

SpecBlocks == InitBlocks /\ [][GenerateDay]_vars

-----------------------------------------------------------------------------
(* Properties                                                               *)

\* day of the week of a calendar date, computed from <<y, m, d>> alone
\* (0 = Sunday .. 6 = Saturday)
DayOfWeek(ymd) ==
    LET t == <<0, 3, 2, 5, 0, 3, 5, 1, 4, 6, 2, 4>>
        y == IF ymd[2] < 3 THEN ymd[1] - 1 ELSE ymd[1]
    IN  (y + (y \div 4) - (y \div 100) + (y \div 400) + t[ymd[2]] + ymd[3]) % 7

BlockIndices == 1 .. Len(last.blocks)

\* C1: every TimeEntry returned by generate_work_blocks, for every date,
\* valid configuration and drawn start time, has time_until strictly after
\* time_since: no entry of zero or negative duration is emitted.
C1_PositiveDuration ==
    \A k \in BlockIndices :
        last.blocks[k].time_until > last.blocks[k].time_since

\* a call whose second block was left out because the break reaches utc_end
C1_Witness ==
    /\ last.called /\ last.business_day
    /\ Len(last.blocks) = 1
    /\ last.break_end >= last.utc_end

\* C2: on a business day generate_work_blocks returns at most 2 entries, and
\* when it returns 2 the first ends no later than the second starts.
C2_AtMostTwoOrdered ==
    last.business_day =>
        /\ Len(last.blocks) <= 2
        /\ Len(last.blocks) = 2 =>
              last.blocks[1].time_until <= last.blocks[2].time_since

C2_Witness ==
    /\ last.called /\ last.business_day
    /\ Len(last.blocks) = 2
    /\ last.blocks[2].time_since - last.blocks[1].time_until = 30

\* C3: the list generate_schedule builds is in chronological order: each
\* entry ends no later than the next one starts.
C3_Chronological ==
    \A k \in 1 .. (Len(entries) - 1) :
        entries[k].time_until <= entries[k + 1].time_since

\* C4: a live run posts every generated entry exactly once, in order, whatever
\* the earlier outcomes; success_count is the attempts minus the failures.
C4_AllAttemptedOnce ==
    (pc \in {"submit", "done"} /\ ~dry_run) =>
        /\ posts = SubSeq(entries, 1, Len(posts))
        /\ pc = "submit" => Len(posts) = idx - 1
        /\ pc = "done" => posts = entries
        /\ success_count = Len(posts) - failures

\* a finished live run in which some submission failed and a later one ran
C4_Witness ==
    /\ pc = "done" /\ ~dry_run
    /\ failures >= 1
    /\ success_count >= 1
    /\ Len(posts) >= 2

\* C5: in dry-run mode no HTTP request is issued for any entry and the
\* reported success_count is the number of generated entries.
C5_DryRunNoRequests ==
    dry_run =>
        /\ posts = <<>>
        /\ failures = 0
        /\ pc = "done" => success_count = Len(entries)

C5_Witness ==
    /\ dry_run /\ pc = "done"
    /\ Len(entries) >= 2
    /\ success_count = Len(entries)

\* C6: a run whose configuration lacks a required field aborts during startup
\* with a non-zero exit status: it never reaches schedule generation or
\* submission, never fails during generation, never completes normally.
C6_MissingFieldAbortsAtStartup ==
    (pc # "start" /\ ~(RequiredKeys \subseteq DOMAIN config)) =>
        /\ pc \notin {"generate", "submit", "crashed", "done"}
        /\ pc = "exit" => exit_status # 0

\* C7: with either credential missing from the environment the run aborts
\* with a non-zero exit status before any generation or submission, in live
\* and in dry-run mode alike.
C7_CredentialsBeforeGeneration ==
    (api_user \in {None, ""} \/ api_key \in {None, ""}) =>
        /\ pc \in {"start", "parse_dates", "credentials", "exit"}
        /\ pc = "exit" => exit_status = 1
        /\ ~last.called
        /\ entries = <<>>
        /\ posts = <<>>

\* a dry run that had its API user but no API key, and was aborted
C7_Witness ==
    /\ pc = "exit" /\ exit_status = 1
    /\ dry_run
    /\ api_user = "user"
    /\ api_key \in {None, ""}
    /\ RequiredKeys \subseteq DOMAIN config

\* C8: is_business_day is false on every Saturday and Sunday and on every
\* date whose ISO string is in excluded_dates, true on every other date;
\* generate_work_blocks returns nothing on a day that is no business day.
C8_BusinessDay ==
    last.called =>
        LET weekend == DayOfWeek(DateOf(last.date)) \in {0, 6}
            listed == strftime(last.date) \in Get(config, "excluded_dates", {})
        IN  /\ last.business_day <=> ~(weekend \/ listed)
            /\ ~last.business_day => (last.blocks = <<>> /\ entries = <<>>)

\* an excluded weekday
C8_Witness ==
    /\ last.called /\ ~last.business_day
    /\ DayOfWeek(DateOf(last.date)) \in 1 .. 5
    /\ entries = <<>>

\* C9: for a span of total_minutes >= 0 the break starts at the multiple of 30
\* nearest to total_minutes // 2 (a remainder of 15 rounds up) and lasts 30
\* minutes; 600 gives 300 (11:00-16:00, 16:30-21:00), 45 gives 30 (one block).
C9_BreakRounding ==
    (last.business_day /\ last.total_minutes >= 0) =>
        LET half == last.total_minutes \div 2
            b == last.break_start_minutes
            times == [k \in BlockIndices |->
                        <<last.blocks[k].time_since - last.utc_start,
                          last.blocks[k].time_until - last.utc_start>>]
        IN  /\ b % 30 = 0
            /\ b - half \in -14 .. 15
            /\ last.break_start = last.utc_start + b
            /\ last.break_end = last.break_start + 30
            /\ last.total_minutes = 600 =>
                  (b = 300 /\ times = <<<<0, 300>>, <<330, 600>>>>)
            /\ last.total_minutes = 45 => (b = 30 /\ times = <<<<0, 30>>>>)

\* a midpoint with remainder exactly 15
C9_Witness ==
    /\ last.business_day
    /\ last.total_minutes >= 0
    /\ (last.total_minutes \div 2) % 30 = 15
    /\ last.break_start_minutes = (last.total_minutes \div 2) + 15

\* C10: every entry generate_work_blocks emits lies inside the work span:
\* utc_start <= time_since and time_until <= utc_end.
C10_InsideSpan ==
    last.business_day =>
        \A k \in BlockIndices :
            /\ last.utc_start <= last.blocks[k].time_since
            /\ last.blocks[k].time_until <= last.utc_end

\* the break start was rounded up past the midpoint and a first block emitted
C10_Witness ==
    /\ last.business_day
    /\ last.break_start_minutes > last.total_minutes \div 2
    /\ Len(last.blocks) >= 1
    /\ last.blocks[1].time_until = last.break_start

====
